---- MODULE Spec2Model ----
(***************************************************************************)
(* Model of the message relay: the payload processor                       *)
(* (src/process_payloads.js) and the API server with its change feed       *)
(* (src/unnamed/part_000, "server.js"), both writing the collection        *)
(* processed_messages.                                                     *)
(*                                                                         *)
(* The collection is a sequence of documents in insertion order; the       *)
(* position of a document is its _id.  Dates are integers: `now' is the    *)
(* clock read by new Date(), and it advances by one with every operation   *)
(* that reads it.                                                          *)
(***************************************************************************)
EXTENDS Integers, Sequences, FiniteSets, TLC

VARIABLES
    store,      \* the collection processed_messages
    now,        \* the clock read by new Date()
    ing,        \* the runs of process_payloads.js: one record per run
    req,        \* the GET /api/messages/:wa_id request in flight
    oplog,      \* the number of document writes the store has logged
    feed,       \* change events the change stream has not handed over yet
    watch,      \* TRUE while the change stream is open
    subs,       \* the sockets connected to io
    inbox,      \* what each connected socket has received since it connected
    last        \* the latest observable output: an HTTP response or a log line

vars == <<store, now, ing, req, oplog, feed, watch, subs, inbox, last>>

----------------------------------------------------------------------------
(* Bounds of the model *)

\* the requests the server handles in a behaviour of SpecStore
MaxClock == 4
\* the requests the server handles in a behaviour of Spec
MaxFeedClock == 2
\* the files of a batch of SpecBatch
MaxFiles == 2

----------------------------------------------------------------------------
(* Values *)

Null == "null"

\* process.env.BUSINESS_NUMBER
BUSINESS_NUMBER == "biz"

\* the name the two runs of the processor go by
Runs == {"r1", "r2"}

\* the sockets that may connect
Sockets == {"s1", "s2"}

\* ids genLocalMsgId can return (Date.now() and a random number below 1000:
\* two calls in the same millisecond can return the same id)
LocalIds == {"local-1", "local-2"}

\* a || b of JavaScript on strings, with Null for null/undefined
Or(a, b) == IF a = Null \/ a = "" THEN b ELSE a

----------------------------------------------------------------------------
(* The collection and its operations *)

\* the documents a filter { msg_id: id } selects
ByMsgId(s, id) == {i \in DOMAIN s : s[i].msg_id = id}

\* a faulty variant: the same filter, selecting also the documents without meta_msg_id
ByEitherIdOrNoMeta(s, id) ==
    {i \in DOMAIN s : s[i].msg_id = id \/ s[i].meta_msg_id = id \/ s[i].meta_msg_id = Null}

\* the documents the filter { $or: [{ msg_id: id }, { meta_msg_id: id }] } selects
ByEitherId(s, id) == {i \in DOMAIN s : s[i].msg_id = id \/ s[i].meta_msg_id = id}

\* the documents { wa_id, direction: 'inbound', status: { $ne: 'read' } } selects
UnreadInbound(s, wa) ==
    {i \in DOMAIN s : s[i].wa_id = wa /\ s[i].direction = "inbound" /\ s[i].status # "read"}

\* a faulty variant: the index on msg_id created without unique: true
NotUnique(s, doc) == FALSE

\* the unique sparse index on msg_id refuses a second document with the same msg_id
ViolatesUnique(s, doc) == doc.msg_id # Null /\ ByMsgId(s, doc.msg_id) # {}

\* the document built from a message of the nested shape
NestedDoc(m, phone, name, t) ==
    [ wa_id       |-> m.from,
      from        |-> Or(name, m.from),
      to          |-> Or(phone, ""),
      msg_id      |-> m.id,
      meta_msg_id |-> Or(m.ctx, Null),
      direction   |-> IF m.from = Or(phone, "") THEN "outbound" ELSE "inbound",
      text        |-> Or(m.text, Or(m.body, "")),
      status      |-> "received",
      timestamp   |-> m.timestamp * 1000,
      createdAt   |-> t,
      updatedAt   |-> t ]

\* the document built from a message of the flat shape
FlatDoc(m, t) ==
    [ wa_id       |-> m.from,
      from        |-> m.from,
      to          |-> Or(m.to, ""),
      msg_id      |-> m.id,
      meta_msg_id |-> Or(m.ctx, Null),
      direction   |-> IF m.from = Or(BUSINESS_NUMBER, "") THEN "outbound" ELSE "inbound",
      text        |-> Or(m.text, ""),
      status      |-> "received",
      timestamp   |-> m.timestamp * 1000,
      createdAt   |-> t,
      updatedAt   |-> t ]

\* the document POST /api/send stores
SendDoc(wa, text, id, t) ==
    [ wa_id       |-> wa,
      from        |-> Or(BUSINESS_NUMBER, "me"),
      to          |-> wa,
      msg_id      |-> id,
      meta_msg_id |-> Null,
      direction   |-> "outbound",
      text        |-> text,
      status      |-> "sent",
      timestamp   |-> t,
      createdAt   |-> t,
      updatedAt   |-> t ]

\* a faulty variant: the same call with $set: doc in place of $setOnInsert: doc
UpsertExistingOverwrite(s, i, doc, t) == [s EXCEPT ![i] = [doc EXCEPT !.updatedAt = t]]

\* updateOne(filter, { $setOnInsert: doc, $set: { updatedAt } }, { upsert: true })
\* when the filter selects document i: only updatedAt is written
UpsertExisting(s, i, doc, t) == [s EXCEPT ![i].updatedAt = t]

\* the same call when the filter selects nothing: doc is inserted
UpsertInsert(s, doc, t) == Append(s, [doc EXCEPT !.updatedAt = t])

\* updateOne(filter, { $set: { status, updatedAt } }) on the selected document i
SetStatus(s, i, status, t) == [s EXCEPT ![i].status = status, ![i].updatedAt = t]

\* a faulty variant: the same call with { upsert: true }: a document is inserted when
\* the filter selects none
PatchStatusUpsert(s, id, status, t) ==
    IF ByEitherId(s, id) = {}
    THEN {Append(s, [ wa_id |-> "", from |-> "", to |-> "", msg_id |-> id,
                      meta_msg_id |-> Null, direction |-> "", text |-> "",
                      status |-> status, timestamp |-> t, createdAt |-> t,
                      updatedAt |-> t ])}
    ELSE {SetStatus(s, i, status, t) : i \in ByEitherId(s, id)}

\* a faulty variant: updateMany in place of updateOne
PatchStatusMany(s, id, status, t) ==
    {[i \in DOMAIN s |->
        IF i \in ByEitherId(s, id)
        THEN [s[i] EXCEPT !.status = status, !.updatedAt = t]
        ELSE s[i]]}

\* the collections that updateOne({ $or: [...] }, { $set: { status, updatedAt } })
\* can leave: it writes one of the documents the filter selects (which one, the
\* store does not say), and nothing when the filter selects none
PatchStatus(s, id, status, t) ==
    IF ByEitherId(s, id) = {}
    THEN {s}
    ELSE {SetStatus(s, i, status, t) : i \in ByEitherId(s, id)}

\* a faulty variant: the same call without direction: 'inbound' in the filter
MarkReadAnyDirection(s, wa, t) ==
    [i \in DOMAIN s |->
        IF s[i].wa_id = wa /\ s[i].status # "read"
        THEN [s[i] EXCEPT !.status = "read", !.updatedAt = t]
        ELSE s[i]]

\* a faulty variant: the same call with status: 'received' in the filter
MarkReadReceivedOnly(s, wa, t) ==
    [i \in DOMAIN s |->
        IF i \in UnreadInbound(s, wa) /\ s[i].status = "received"
        THEN [s[i] EXCEPT !.status = "read", !.updatedAt = t]
        ELSE s[i]]

\* updateMany({ wa_id, direction: 'inbound', status: { $ne: 'read' } },
\*            { $set: { status: 'read', updatedAt } })
MarkRead(s, wa, t) ==
    [i \in DOMAIN s |->
        IF i \in UnreadInbound(s, wa)
        THEN [s[i] EXCEPT !.status = "read", !.updatedAt = t]
        ELSE s[i]]

\* toUpdate.modifiedCount: the documents that call writes
MarkedCount(s, wa) == Cardinality(UnreadInbound(s, wa))

\* the unreadCount the aggregation of GET /api/chats computes for one wa_id
UnreadCount(s, wa) == Cardinality(UnreadInbound(s, wa))

\* the groups (_id: '$wa_id') of that aggregation
ChatIds(s) == {s[i].wa_id : i \in DOMAIN s}

----------------------------------------------------------------------------
(* The change stream of the server *)

\* the positions 1..n, in order
Positions(n) == [i \in 1..n |-> i]

\* the change events of a write that turns the collection s into s2 when the
\* log holds n writes: an insert for every new document and an update for
\* every modified one, each with its position in the log
ChangeEvents(s, s2, n) ==
    LET changed(i) == i > Len(s) \/ s[i] # s2[i]
        hit == SelectSeq(Positions(Len(s2)), changed)
    IN  [k \in 1..Len(hit) |->
            [ op  |-> IF hit[k] > Len(s) THEN "insert" ELSE "update",
              id  |-> hit[k],
              ts  |-> n + k,
              doc |-> s2[hit[k]] ]]

\* a faulty variant: the write goes through the open change stream and is lost without it
LoggedWhileWatching ==
    /\ watch
    /\ oplog' = oplog + Len(ChangeEvents(store, store', oplog))
    /\ feed' = feed \o ChangeEvents(store, store', oplog)

\* the store logs the write of this step, and the stream opened by
\* col.watch([], { fullDocument: 'updateLookup' }) queues its events
Logged ==
    /\ oplog' = oplog + Len(ChangeEvents(store, store', oplog))
    /\ feed' = IF watch THEN feed \o ChangeEvents(store, store', oplog) ELSE feed

\* what changeStream.on('change') hands to io.emit for the change event e;
\* the fullDocument of an update is looked up when the event is read
Emitted(e, s) ==
    IF e.op = "insert"
    THEN [ type   |-> "new_message",
           chatId |-> e.doc.wa_id,
           msg_id |-> e.doc.msg_id,
           status |-> e.doc.status,
           doc    |-> e.doc,
           id     |-> e.id,
           ts     |-> e.ts ]
    ELSE [ type   |-> "message_status",
           chatId |-> s[e.id].wa_id,
           msg_id |-> Or(s[e.id].msg_id, Or(s[e.id].meta_msg_id, "_id")),
           status |-> Or(s[e.id].status, Null),
           doc    |-> s[e.id],
           id     |-> e.id,
           ts     |-> e.ts ]

\* a faulty variant: socket.emit in place of io.emit: one connected socket receives the event
BroadcastToOne(box, conn, ev) ==
    [s \in DOMAIN box |->
        IF conn # {} /\ s = CHOOSE c \in conn : TRUE THEN Append(box[s], ev) ELSE box[s]]

\* io.emit: every connected socket receives the event
Broadcast(box, conn, ev) ==
    [s \in DOMAIN box |-> IF s \in conn THEN Append(box[s], ev) ELSE box[s]]

----------------------------------------------------------------------------
(* Inputs of the API *)

WaIds == {"111", "222"}
SendTexts == {"hello"}
StatusIds == {"m1", "m2", "local-1", "m9"}
StatusValues == {"delivered", "read"}

\* the request bodies of Spec; "" stands for a field that is missing or empty
FeedWaIds == {"111", ""}
FeedTexts == {"hello", ""}
FeedStatusIds == {"local-1", "m1", ""}
FeedStatusValues == {"delivered", ""}

\* an observable output: the response of a request or a line of the log
Out(op, code, id, arg, t) == [op |-> op, code |-> code, id |-> id, arg |-> arg, at |-> t]

Idle == [pc |-> "idle"]

----------------------------------------------------------------------------
(* The handlers of the server *)

\* POST /api/send with a missing wa_id or text
SendInvalid(wa, text) ==
    /\ wa = "" \/ text = ""
    /\ last' = Out("send", 400, wa, text, now)
    /\ now' = now + 1
    /\ UNCHANGED <<store, ing, req, oplog, feed, watch, subs, inbox>>

\* a faulty variant: the handler tests wa_id alone
SendUnchecked(wa, text, id) ==
    /\ wa # ""
    /\ LET doc == SendDoc(wa, text, id, now) IN
        IF ViolatesUnique(store, doc)
        THEN /\ last' = Out("send", 500, id, text, now)
             /\ UNCHANGED <<store, oplog, feed>>
        ELSE /\ store' = Append(store, doc)
             /\ Logged
             /\ last' = Out("send", 201, id, text, now)
    /\ now' = now + 1
    /\ UNCHANGED <<ing, req, watch, subs, inbox>>

\* POST /api/send
Send(wa, text, id) ==
    /\ wa # "" /\ text # ""
    /\ LET doc == SendDoc(wa, text, id, now) IN
        IF ViolatesUnique(store, doc)
        THEN /\ last' = Out("send", 500, id, text, now)
             /\ UNCHANGED <<store, oplog, feed>>
        ELSE /\ store' = Append(store, doc)
             /\ Logged
             /\ last' = Out("send", 201, id, text, now)
    /\ now' = now + 1
    /\ UNCHANGED <<ing, req, watch, subs, inbox>>

\* POST /api/status with a missing id or status
UpdateStatusInvalid(id, status) ==
    /\ id = "" \/ status = ""
    /\ last' = Out("status", 400, id, status, now)
    /\ now' = now + 1
    /\ UNCHANGED <<store, ing, req, oplog, feed, watch, subs, inbox>>

\* POST /api/status
UpdateStatus(id, status) ==
    /\ id # "" /\ status # ""
    /\ store' \in PatchStatus(store, id, status, now)
    /\ Logged
    /\ last' = IF ByEitherId(store, id) # {}
               THEN Out("status", 200, id, status, now)
               ELSE Out("status", 404, id, status, now)
    /\ now' = now + 1
    /\ UNCHANGED <<ing, req, watch, subs, inbox>>

\* the orders { $sort: { timestamp: -1 } } can hand the documents on in:
\* documents of one timestamp come in any order
SortedByTimestampDesc(s) ==
    {q \in Permutations(DOMAIN s) :
        \A j, k \in DOMAIN s : j < k => s[q[j]].timestamp >= s[q[k]].timestamp}

\* the group of wa in the order q: every $first is taken from the first
\* document of wa in q, and unreadCount sums over the group
Summary(s, q, wa) ==
    LET j == CHOOSE j \in DOMAIN s :
                /\ s[q[j]].wa_id = wa
                /\ \A k \in DOMAIN s : k < j => s[q[k]].wa_id # wa
    IN  [ wa_id         |-> s[q[j]].wa_id,
          name          |-> s[q[j]].from,
          lastMessage   |-> s[q[j]].text,
          lastTimestamp |-> s[q[j]].timestamp,
          unreadCount   |-> UnreadCount(s, wa) ]

\* the arrays the aggregation of GET /api/chats can return: the groups,
\* sorted by { lastTimestamp: -1 }
Chats(s) ==
    LET n == Cardinality(ChatIds(s)) IN
    UNION {
        {r \in [1..n -> {Summary(s, q, wa) : wa \in ChatIds(s)}] :
            /\ \A j, k \in 1..n : j # k => r[j] # r[k]
            /\ \A j, k \in 1..n : j < k => r[j].lastTimestamp >= r[k].lastTimestamp}
        : q \in SortedByTimestampDesc(s)}

\* GET /api/chats
ListChats ==
    /\ \E r \in Chats(store) : last' = Out("chats", 200, "", r, now)
    /\ UNCHANGED <<store, now, ing, req, oplog, feed, watch, subs, inbox>>

\* the orders find({ wa_id }).sort({ timestamp: 1, createdAt: 1 }) can return
Sorted(s, wa) ==
    LET hit == {i \in DOMAIN s : s[i].wa_id = wa}
        n == Cardinality(hit)
        before(a, b) == \/ s[a].timestamp < s[b].timestamp
                        \/ s[a].timestamp = s[b].timestamp /\ s[a].createdAt <= s[b].createdAt
    IN  {q \in [1..n -> hit] :
            /\ \A j, k \in 1..n : j # k => q[j] # q[k]
            /\ \A j, k \in 1..n : j < k => before(q[j], q[k])}

\* GET /api/messages/:wa_id, up to the await of find
GetMessagesFind(wa) ==
    /\ req.pc = "idle"
    /\ \E q \in Sorted(store, wa) :
          req' = [pc |-> "mark", wa_id |-> wa, msgs |-> [k \in DOMAIN q |-> store[q[k]]]]
    /\ UNCHANGED <<store, now, ing, oplog, feed, watch, subs, inbox, last>>

\* a faulty variant: the handler calls find after updateMany and answers what it finds then
GetMessagesMarkThenFind ==
    /\ req.pc = "mark"
    /\ store' = MarkRead(store, req.wa_id, now)
    /\ Logged
    /\ \E q \in Sorted(store', req.wa_id) :
          last' = [op |-> "messages", code |-> 200, id |-> req.wa_id,
                   arg |-> [k \in DOMAIN q |-> store'[q[k]]], at |-> now]
    /\ req' = Idle
    /\ now' = now + 1
    /\ UNCHANGED <<ing, watch, subs, inbox>>

\* GET /api/messages/:wa_id, from updateMany to the response
GetMessagesMark ==
    /\ req.pc = "mark"
    /\ store' = MarkRead(store, req.wa_id, now)
    /\ Logged
    /\ last' = [op |-> "messages", code |-> 200, id |-> req.wa_id,
                arg |-> req.msgs, at |-> now]
    /\ req' = Idle
    /\ now' = now + 1
    /\ UNCHANGED <<ing, watch, subs, inbox>>

\* changeStream.on('change')
Emit ==
    /\ watch
    /\ feed # <<>>
    /\ inbox' = Broadcast(inbox, subs, Emitted(Head(feed), store))
    /\ feed' = Tail(feed)
    /\ UNCHANGED <<store, now, ing, req, oplog, watch, subs, last>>

\* changeStream.on('error'): the error is logged, the stream delivers no more
FeedError ==
    /\ watch
    /\ watch' = FALSE
    /\ feed' = <<>>
    /\ last' = Out("feed_error", 0, "", "ChangeStream error", now)
    /\ UNCHANGED <<store, now, ing, req, oplog, subs, inbox>>

\* a client connects to io
Connect(s) ==
    /\ s \notin subs
    /\ subs' = subs \cup {s}
    /\ inbox' = [inbox EXCEPT ![s] = <<>>]
    /\ UNCHANGED <<store, now, ing, req, oplog, feed, watch, last>>

\* a client disconnects
Disconnect(s) ==
    /\ s \in subs
    /\ subs' = subs \ {s}
    /\ inbox' = [inbox EXCEPT ![s] = <<>>]
    /\ UNCHANGED <<store, now, ing, req, oplog, feed, watch, last>>

----------------------------------------------------------------------------
(* Payload files *)

\* a message item of a payload: m.id, m.from, m.to, m.context.id, m.text.body,
\* m.body and m.timestamp (seconds), with "" or Null for an absent field
Msg(id, from, ctx, text, ts) ==
    [id |-> id, from |-> from, to |-> "", ctx |-> ctx, text |-> text, body |-> "",
     timestamp |-> ts]

\* a status item of a payload: s.id, s.meta_msg_id and s.status ("" for an
\* absent id; with both absent the filter is built from undefined, which the
\* driver sends as null)
St(id, meta, status) == [id |-> id, meta_msg_id |-> meta, status |-> status]

\* one element of entry[].changes[]: value.metadata.phone_number_id,
\* value.contacts[0].profile.name, value.messages and value.statuses
\* (an absent array is the empty one: its loop runs no iteration)
Change(phone, name, ms, ss) ==
    [phone |-> phone, name |-> name, messages |-> ms, statuses |-> ss]

Nested(changes) == [shape |-> "nested", entry |-> <<[changes |-> changes]>>]
Flat(ms, ss) == [shape |-> "flat", messages |-> ms, statuses |-> ss]
\* a payload that is null: reading payload.metaData throws a TypeError
NullPayload == [shape |-> "null"]

ArrayFile(ps) == [kind |-> "array", payloads |-> ps]
Unparsable == [kind |-> "unparsable"]
NotArray == [kind |-> "notarray"]

M1 == Msg("m1", "111", Null, "hi", 1)
M1b == Msg("m1", "biz", Null, "yo", 2)
M2 == Msg("m2", "111", "m1", "re", 2)
M3 == Msg("m3", "biz", Null, "out", 3)
M4 == Msg("m4", "111", Null, "later", 2)
M5 == Msg("m5", "222", Null, "hey", 1)

\* the payload files of the model
Files ==
    { Unparsable,
      NotArray,
      ArrayFile(<<Flat(<<M1>>, <<>>)>>),
      ArrayFile(<<Flat(<<>>, <<St("m1", "", "read")>>)>>),
      ArrayFile(<<Flat(<<M1b>>, <<>>)>>),
      ArrayFile(<<Nested(<<Change("biz", "Ann", <<>>, <<St("m1", "", "read")>>),
                           Change("biz", "Ann", <<M1>>, <<>>)>>)>>),
      ArrayFile(<<NullPayload, Flat(<<M2>>, <<>>)>>),
      ArrayFile(<<Flat(<<M2>>, <<St("", "m1", "delivered")>>)>>),
      ArrayFile(<<Nested(<<Change("999", Null, <<M3>>, <<>>)>>)>>),
      ArrayFile(<<Flat(<<M1>>, <<St("m1", "", "failed")>>)>>) }

\* the sequences of 1..n elements of S
RECURSIVE SeqsUpTo(_, _)
SeqsUpTo(S, n) ==
    IF n = 0 THEN {}
    ELSE LET shorter == SeqsUpTo(S, n - 1)
         IN  {<<x>> : x \in S} \cup shorter \cup {Append(q, x) : q \in shorter, x \in S}

\* readdirSync(PAYLOAD_DIR): the batches of the batch specifications
Batches == SeqsUpTo(Files, MaxFiles)

\* the batches the processor is run on next to the server
LiveBatches ==
    { <<ArrayFile(<<Flat(<<>>, <<St("m1", "", "read")>>), Flat(<<M1>>, <<>>),
                    Flat(<<M1b>>, <<>>)>>)>>,
      <<ArrayFile(<<Flat(<<M1, M2>>, <<St("", "m1", "delivered")>>)>>)>> }

\* the batch the processor is run on in Spec
FeedBatches == {<<ArrayFile(<<Flat(<<M1, M1b>>, <<St("m1", "", "delivered")>>)>>)>>}

RECURSIVE Concat(_)
Concat(qs) == IF qs = <<>> THEN <<>> ELSE Head(qs) \o Concat(Tail(qs))

\* the store calls one payload leads to, in the order of the loops of run()
PayloadItems(p) ==
    LET msgs(shape, c) ==
            [k \in DOMAIN c.messages |->
                [kind |-> "msg", shape |-> shape, m |-> c.messages[k],
                 phone |-> IF shape = "nested" THEN c.phone ELSE "",
                 name |-> IF shape = "nested" THEN c.name ELSE Null]]
        stats(c) ==
            [k \in DOMAIN c.statuses |->
                [kind |-> "status",
                 id |-> Or(Or(c.statuses[k].id, c.statuses[k].meta_msg_id), Null),
                 status |-> c.statuses[k].status]]
    IN  IF p.shape = "null" THEN <<[kind |-> "throw"]>>
        ELSE IF p.shape = "nested"
        THEN Concat([e \in DOMAIN p.entry |->
                Concat([c \in DOMAIN p.entry[e].changes |->
                    msgs("nested", p.entry[e].changes[c])
                        \o stats(p.entry[e].changes[c])])])
        ELSE msgs("flat", p) \o stats(p)

\* the store calls of a parsed file
FileItems(f) ==
    IF f.kind = "array"
    THEN Concat([k \in DOMAIN f.payloads |-> PayloadItems(f.payloads[k])])
    ELSE <<>>

\* the document of a message item
ItemDoc(it, t) ==
    IF it.shape = "nested" THEN NestedDoc(it.m, it.phone, it.name, t) ELSE FlatDoc(it.m, t)

----------------------------------------------------------------------------
(* The runs of the payload processor *)

NotStarted == [pc |-> "idle", files |-> <<>>, fi |-> 0, work |-> <<>>, wi |-> 0, t |-> 0]

Started(b) == [pc |-> "run", files |-> b, fi |-> 0, work |-> <<>>, wi |-> 0, t |-> 0]

\* the item the run is at
HasItem(r) == r.pc = "run" /\ r.wi < Len(r.work)
Item(r) == r.work[r.wi + 1]

\* run() up to the loop over the files
IngestStart(p, batches) ==
    /\ ing[p].pc = "idle"
    /\ \E b \in batches : ing' = [ing EXCEPT ![p] = Started(b)]
    /\ UNCHANGED <<store, now, req, oplog, feed, watch, subs, inbox, last>>

\* the head of the loop over the files: read and parse the next file
IngestNextFile(p) ==
    /\ ing[p].pc = "run"
    /\ ing[p].wi = Len(ing[p].work)
    /\ ing[p].fi < Len(ing[p].files)
    /\ LET f == ing[p].files[ing[p].fi + 1] IN
        /\ ing' = [ing EXCEPT ![p].fi = @ + 1, ![p].work = FileItems(f), ![p].wi = 0]
        /\ last' = IF f.kind = "array"
                   THEN Out("file", 0, p, f.kind, now)
                   ELSE Out("skip_file", 0, p, f.kind, now)
    /\ UNCHANGED <<store, now, req, oplog, feed, watch, subs, inbox>>

\* a message item: updateOne with upsert when the filter selects a document
IngestUpsertExisting(p) ==
    /\ HasItem(ing[p])
    /\ Item(ing[p]).kind = "msg"
    /\ LET doc == ItemDoc(Item(ing[p]), now) IN
        /\ ByMsgId(store, doc.msg_id) # {}
        /\ \E i \in ByMsgId(store, doc.msg_id) : store' = UpsertExisting(store, i, doc, now)
        /\ last' = Out("upsert", 0, doc.msg_id, p, now)
    /\ Logged
    /\ ing' = [ing EXCEPT ![p].wi = @ + 1]
    /\ now' = now + 1
    /\ UNCHANGED <<req, watch, subs, inbox>>

\* a message item: the filter of updateOne with upsert selects nothing, and
\* the store goes on to insert the document
IngestUpsertMiss(p) ==
    /\ HasItem(ing[p])
    /\ Item(ing[p]).kind = "msg"
    /\ ByMsgId(store, Item(ing[p]).m.id) = {}
    /\ ing' = [ing EXCEPT ![p].pc = "insert", ![p].t = now]
    /\ now' = now + 1
    /\ UNCHANGED <<store, req, oplog, feed, watch, subs, inbox, last>>

\* the insert of the upsert goes through
IngestUpsertInsert(p) ==
    /\ ing[p].pc = "insert"
    /\ LET doc == ItemDoc(Item(ing[p]), ing[p].t) IN
        /\ ~ViolatesUnique(store, doc)
        /\ store' = UpsertInsert(store, doc, ing[p].t)
        /\ last' = Out("upsert", 1, doc.msg_id, p, ing[p].t)
    /\ Logged
    /\ ing' = [ing EXCEPT ![p].pc = "run", ![p].wi = @ + 1]
    /\ UNCHANGED <<now, req, watch, subs, inbox>>

\* the insert of the upsert meets a document another writer has inserted in
\* the meantime, and the store runs the upsert again, as an update
IngestUpsertRetry(p) ==
    /\ ing[p].pc = "insert"
    /\ LET doc == ItemDoc(Item(ing[p]), ing[p].t) IN
        /\ ViolatesUnique(store, doc)
        /\ \E i \in ByMsgId(store, doc.msg_id) :
              store' = UpsertExisting(store, i, doc, ing[p].t)
        /\ last' = Out("upsert", 0, doc.msg_id, p, ing[p].t)
    /\ Logged
    /\ ing' = [ing EXCEPT ![p].pc = "run", ![p].wi = @ + 1]
    /\ UNCHANGED <<now, req, watch, subs, inbox>>

\* the same, and the store rejects the call with a duplicate key error
\* (E11000): nothing catches it before run().catch
IngestUpsertDuplicate(p) ==
    /\ ing[p].pc = "insert"
    /\ ViolatesUnique(store, ItemDoc(Item(ing[p]), ing[p].t))
    /\ ing' = [ing EXCEPT ![p].pc = "aborted"]
    /\ last' = Out("abort", 1, p, "E11000", now)
    /\ UNCHANGED <<store, now, req, oplog, feed, watch, subs, inbox>>

\* a status item: updateOne on the $or filter; result.modifiedCount is logged
IngestStatus(p) ==
    /\ HasItem(ing[p])
    /\ Item(ing[p]).kind = "status"
    /\ LET it == Item(ing[p]) IN
        /\ store' \in PatchStatus(store, it.id, it.status, now)
        /\ last' = Out("patch", IF store' # store THEN 1 ELSE 0, it.id, it.status, now)
    /\ Logged
    /\ ing' = [ing EXCEPT ![p].wi = @ + 1]
    /\ now' = now + 1
    /\ UNCHANGED <<req, watch, subs, inbox>>

\* an exception inside the loops reaches run().catch: process.exit(1)
IngestThrow(p) ==
    /\ HasItem(ing[p])
    /\ Item(ing[p]).kind = "throw"
    /\ ing' = [ing EXCEPT ![p].pc = "aborted"]
    /\ last' = Out("abort", 1, p, "TypeError", now)
    /\ UNCHANGED <<store, now, req, oplog, feed, watch, subs, inbox>>

\* a store call of the run is rejected (the connection fails): the
\* exception reaches run().catch as well
IngestStorageError(p) ==
    /\ HasItem(ing[p])
    /\ Item(ing[p]).kind \in {"msg", "status"}
    /\ ing' = [ing EXCEPT ![p].pc = "aborted"]
    /\ last' = Out("abort", 1, p, "StorageError", now)
    /\ UNCHANGED <<store, now, req, oplog, feed, watch, subs, inbox>>

\* the loops are over: client.close()
IngestDone(p) ==
    /\ ing[p].pc = "run"
    /\ ing[p].wi = Len(ing[p].work)
    /\ ing[p].fi = Len(ing[p].files)
    /\ ing' = [ing EXCEPT ![p].pc = "done"]
    /\ last' = Out("done", 0, p, "", now)
    /\ UNCHANGED <<store, now, req, oplog, feed, watch, subs, inbox>>

----------------------------------------------------------------------------
(* The server next to one run of the processor *)

Init ==
    /\ store = <<>>
    /\ now = 0
    /\ ing = [p \in Runs |-> NotStarted]
    /\ req = Idle
    /\ oplog = 0
    /\ feed = <<>>
    /\ watch = TRUE
    /\ subs = {}
    /\ inbox = [s \in Sockets |-> <<>>]
    /\ last = Out("init", 0, "", "", 0)

Next ==
    \/ now < MaxFeedClock /\ \E wa \in FeedWaIds, text \in FeedTexts : SendInvalid(wa, text)
    \/ now < MaxFeedClock /\ \E wa \in FeedWaIds, text \in FeedTexts, id \in {"local-1"} : Send(wa, text, id)
    \/ now < MaxFeedClock /\ \E id \in FeedStatusIds, st \in FeedStatusValues : UpdateStatusInvalid(id, st)
    \/ now < MaxFeedClock /\ \E id \in FeedStatusIds, st \in FeedStatusValues : UpdateStatus(id, st)
    \/ now < MaxFeedClock /\ \E wa \in {"111"} : GetMessagesFind(wa)
    \/ now < MaxFeedClock /\ GetMessagesMark
    \/ Emit
    \/ FeedError
    \/ \E s \in Sockets : Connect(s)
    \/ \E s \in Sockets : Disconnect(s)
    \/ IngestStart("r1", FeedBatches)
    \/ IngestNextFile("r1")
    \/ IngestUpsertExisting("r1")
    \/ IngestUpsertMiss("r1")
    \/ IngestUpsertInsert("r1")
    \/ IngestStatus("r1")
    \/ IngestDone("r1")

Spec == Init /\ [][Next]_vars

InitStore ==
    /\ store = <<>>
    /\ now = 0
    /\ ing = [p \in Runs |-> NotStarted]
    /\ req = Idle
    /\ oplog = 0
    /\ feed = <<>>
    /\ watch = FALSE
    /\ subs = {}
    /\ inbox = [s \in Sockets |-> <<>>]
    /\ last = Out("init", 0, "", "", 0)

NextStore ==
    \/ now < MaxClock /\ \E wa \in {"111", ""}, text \in SendTexts \cup {""} : SendInvalid(wa, text)
    \/ now < MaxClock /\ \E wa \in WaIds, text \in SendTexts, id \in LocalIds : Send(wa, text, id)
    \/ now < MaxClock /\ \E id \in {"m1", ""}, st \in {"read", ""} : UpdateStatusInvalid(id, st)
    \/ now < MaxClock /\ \E id \in StatusIds, st \in StatusValues : UpdateStatus(id, st)
    \/ now < MaxClock /\ \E wa \in WaIds : GetMessagesFind(wa)
    \/ now < MaxClock /\ GetMessagesMark
    \/ IngestStart("r1", LiveBatches)
    \/ IngestNextFile("r1")
    \/ IngestUpsertExisting("r1")
    \/ IngestUpsertMiss("r1")
    \/ IngestUpsertInsert("r1")
    \/ IngestStatus("r1")
    \/ IngestDone("r1")

SpecStore == InitStore /\ [][NextStore]_vars

----------------------------------------------------------------------------
(* One run of the processor over a batch, alone on an empty collection *)

\* the collections a message item can leave
Upsert(s, doc, t) ==
    IF ByMsgId(s, doc.msg_id) = {}
    THEN {UpsertInsert(s, doc, t)}
    ELSE {UpsertExisting(s, i, doc, t) : i \in ByMsgId(s, doc.msg_id)}

\* the collections a run can leave when it processes the items in order
\* from the collection s, up to the first item that throws
RECURSIVE Outcomes(_, _)
Outcomes(s, items) ==
    IF items = <<>> \/ Head(items).kind = "throw"
    THEN {s}
    ELSE LET it == Head(items)
             after == IF it.kind = "msg"
                      THEN Upsert(s, ItemDoc(it, 0), 0)
                      ELSE PatchStatus(s, it.id, it.status, 0)
         IN  UNION {Outcomes(s2, Tail(items)) : s2 \in after}

\* the store calls of a batch, file after file
BatchItems(b) == Concat([k \in DOMAIN b |-> FileItems(b[k])])

InitBatch ==
    /\ store = <<>>
    /\ now = 0
    /\ \E b \in Batches : ing = [p \in Runs |-> IF p = "r1" THEN Started(b) ELSE NotStarted]
    /\ req = Idle
    /\ oplog = 0
    /\ feed = <<>>
    /\ watch = FALSE
    /\ subs = {}
    /\ inbox = [s \in Sockets |-> <<>>]
    /\ last = Out("init", 0, "", "", 0)

NextBatch ==
    \/ IngestNextFile("r1")
    \/ IngestUpsertExisting("r1")
    \/ IngestUpsertMiss("r1")
    \/ IngestUpsertInsert("r1")
    \/ IngestStatus("r1")
    \/ IngestThrow("r1")
    \/ IngestStorageError("r1")
    \/ IngestDone("r1")

SpecBatch == InitBatch /\ [][NextBatch]_vars

----------------------------------------------------------------------------
(* Two runs of the processor at once *)

RaceBatches ==
    { <<ArrayFile(<<Flat(<<M1>>, <<St("m1", "", "read")>>)>>)>>,
      <<ArrayFile(<<Flat(<<M1b, M2>>, <<>>)>>)>> }

InitRace ==
    /\ store = <<>>
    /\ now = 0
    /\ ing = [p \in Runs |-> NotStarted]
    /\ req = Idle
    /\ oplog = 0
    /\ feed = <<>>
    /\ watch = FALSE
    /\ subs = {}
    /\ inbox = [s \in Sockets |-> <<>>]
    /\ last = Out("init", 0, "", "", 0)

NextRace ==
    \E p \in Runs :
        \/ IngestStart(p, RaceBatches)
        \/ IngestNextFile(p)
        \/ IngestUpsertExisting(p)
        \/ IngestUpsertMiss(p)
        \/ IngestUpsertInsert(p)
        \/ IngestUpsertRetry(p)
        \/ IngestUpsertDuplicate(p)
        \/ IngestStatus(p)
        \/ IngestDone(p)

SpecRace == InitRace /\ [][NextRace]_vars

----------------------------------------------------------------------------
(* The list of chats next to the writers *)

ChatBatches ==
    { <<ArrayFile(<<Flat(<<M5, M1, M2, M4>>, <<St("m1", "", "read")>>)>>)>>,
      <<ArrayFile(<<Flat(<<M4, M2>>, <<>>)>>)>> }

InitChats ==
    /\ store = <<>>
    /\ now = 0
    /\ ing = [p \in Runs |-> NotStarted]
    /\ req = Idle
    /\ oplog = 0
    /\ feed = <<>>
    /\ watch = FALSE
    /\ subs = {}
    /\ inbox = [s \in Sockets |-> <<>>]
    /\ last = Out("init", 0, "", "", 0)

NextChats ==
    \/ ListChats
    \/ now < MaxClock /\ \E wa \in WaIds, text \in SendTexts : Send(wa, text, "local-1")
    \/ now < MaxClock /\ \E wa \in WaIds : GetMessagesFind(wa)
    \/ now < MaxClock /\ GetMessagesMark
    \/ IngestStart("r1", ChatBatches)
    \/ IngestNextFile("r1")
    \/ IngestUpsertMiss("r1")
    \/ IngestUpsertInsert("r1")
    \/ IngestStatus("r1")
    \/ IngestDone("r1")

SpecChats == InitChats /\ [][NextChats]_vars

----------------------------------------------------------------------------
(* Claims *)

\* a document without updatedAt, and without either store-managed date
IgnoreUpdatedAt(r) == [r EXCEPT !.updatedAt = 0]
IgnoreDates(r) == [r EXCEPT !.createdAt = 0, !.updatedAt = 0]
Records(s) == {IgnoreDates(s[i]) : i \in DOMAIN s}

\* the fields that are set when a document is created
Content(r) == [r EXCEPT !.status = "", !.updatedAt = 0]

\* the orders a batch can be read in
Orders(b) == {[k \in DOMAIN b |-> b[f[k]]] : f \in Permutations(DOMAIN b)}

\* the run has ingested one file that holds one payload
OnePayload(r) ==
    /\ Len(r.files) = 1
    /\ r.files[1].kind = "array"
    /\ Len(r.files[1].payloads) = 1

\* C1: when a run has ingested a payload, ingesting the same payload once more
\* leaves the same documents with the same fields, updatedAt apart
C1_IngestTwiceSameStore ==
    (ing["r1"].pc = "done" /\ OnePayload(ing["r1"])) =>
        \A s2 \in Outcomes(store, BatchItems(ing["r1"].files)) :
            /\ Len(s2) = Len(store)
            /\ \A i \in DOMAIN store : IgnoreUpdatedAt(s2[i]) = IgnoreUpdatedAt(store[i])

\* C2: no two documents of the collection have the same msg_id
C2_UniqueMsgId ==
    \A i, j \in DOMAIN store :
        (i # j /\ store[i].msg_id # Null) => store[i].msg_id # store[j].msg_id

\* C2's case: an insert was refused because the msg_id is taken
C2_Witness ==
    /\ last.op = "send" /\ last.code = 500
    /\ Len(store) >= 2

\* no document has id as its msg_id or its meta_msg_id
Orphan(s, id) == \A i \in DOMAIN s : s[i].msg_id # id /\ s[i].meta_msg_id # id

\* C3: a status item of a payload whose id no document carries leaves the
\* collection as it is, and a document a message item creates has the status
\* received, whatever status items came before it
C3_EarlyPatchDropped ==
    [][ /\ (last' # last /\ last'.op = "patch" /\ Orphan(store, last'.id))
            => store' = store
        /\ (last' # last /\ last'.op = "upsert" /\ last'.code = 1)
            => /\ Len(store') = Len(store) + 1
               /\ store'[Len(store')].msg_id = last'.id
               /\ store'[Len(store')].status = "received"
               /\ \A i \in DOMAIN store : store'[i] = store[i] ]_vars

\* C3's case: the run met the status item for m1 first and was told that
\* nothing was modified, then met the message m1 and created its document
C3_Witness ==
    /\ ing["r1"].wi >= 2
    /\ ing["r1"].work[1].kind = "status" /\ ing["r1"].work[1].id = "m1"
    /\ ing["r1"].work[1].status = "read"
    /\ ing["r1"].work[2].kind = "msg" /\ ing["r1"].work[2].m.id = "m1"
    /\ last.op = "upsert" /\ last.code = 1 /\ last.id = "m1"
    /\ \E i \in DOMAIN store : store[i].msg_id = "m1" /\ store[i].status = "received"

\* the step is a status patch, of a payload or of POST /api/status, whose id
\* no document carries
OrphanPatchStep ==
    /\ last' # last
    /\ last'.op \in {"patch", "status"}
    /\ last'.id # "" /\ last'.arg # ""
    /\ Orphan(store, last'.id)

\* C4 as stated: such a patch changes nothing and no failure is reported
C4_OrphanPatchNoError ==
    [][ OrphanPatchStep =>
            /\ store' = store
            /\ last'.op = "status" => last'.code < 400
            /\ \A p \in Runs : ing'[p].pc # "aborted" ]_vars

\* C4 as amended: such a patch changes nothing; a run logs that nothing was
\* modified and goes on, and POST /api/status answers 404
C4_OrphanPatchNoChange ==
    [][ OrphanPatchStep =>
            /\ store' = store
            /\ last'.op = "patch" => (last'.code = 0 /\ \A p \in Runs : ing'[p].pc # "aborted")
            /\ last'.op = "status" => last'.code = 404 ]_vars

\* C4's case: POST /api/status for an id no document carries, on a collection
\* that has documents
C4_Witness ==
    /\ last.op = "status" /\ last.code = 404
    /\ store # <<>>
    /\ Orphan(store, last.id)

\* C5: a document keeps the fields it was created with; a message item whose
\* msg_id exists writes updatedAt alone
C5_ContentFrozen ==
    [][ /\ Len(store') >= Len(store)
        /\ \A i \in DOMAIN store : Content(store'[i]) = Content(store[i])
        /\ (last' # last /\ last'.op = "upsert" /\ last'.code = 0)
            => /\ Len(store') = Len(store)
               /\ \A i \in DOMAIN store :
                    IgnoreUpdatedAt(store'[i]) = IgnoreUpdatedAt(store[i]) ]_vars

\* C5's case: the message m1 came a second time with another sender and body
C5_Witness ==
    /\ last.op = "upsert" /\ last.code = 0 /\ last.id = "m1"
    /\ ing["r1"].wi >= 1
    /\ ing["r1"].work[ing["r1"].wi].kind = "msg"
    /\ ing["r1"].work[ing["r1"].wi].m = M1b
    /\ \E i \in DOMAIN store :
        /\ store[i].msg_id = "m1" /\ store[i].text = "hi" /\ store[i].wa_id = "111"
        /\ store[i].updatedAt > store[i].createdAt

\* C6: whatever order the files of a batch are read in, the run leaves the
\* same documents (the store-managed dates apart)
C6_OrderIndependent ==
    ing["r1"].pc = "done" =>
        \A b \in Orders(ing["r1"].files) :
            \A s2 \in Outcomes(<<>>, BatchItems(b)) : Records(s2) = Records(store)

\* C7: a connected socket has received, in the order of the writes and each
\* once, the change events handed over since it connected, an insert as
\* new_message and an update as message_status; the handing over of an event
\* appends it to the inbox of every connected socket and of no other, and a
\* write queues one event for every document it inserts or modifies
C7_DeliveryInOrder ==
    /\ [](\A s \in Sockets :
            /\ s \notin subs => inbox[s] = <<>>
            /\ \A j, k \in DOMAIN inbox[s] :
                j < k =>
                    /\ inbox[s][j].ts < inbox[s][k].ts
                    /\ inbox[s][j].id = inbox[s][k].id
                        => inbox[s][k].type = "message_status"
            /\ \A u \in subs :
                Len(inbox[u]) <= Len(inbox[s]) =>
                    inbox[u] = SubSeq(inbox[s], Len(inbox[s]) - Len(inbox[u]) + 1,
                                      Len(inbox[s])))
    /\ [][ /\ (watch /\ watch' /\ feed # <<>> /\ feed' = Tail(feed))
              => \A s \in Sockets :
                    inbox'[s] = IF s \in subs
                                THEN Append(inbox[s], Emitted(Head(feed), store))
                                ELSE inbox[s]
           /\ (watch /\ store' # store)
              => /\ Len(feed') = Len(feed)
                        + Cardinality({i \in DOMAIN store' :
                                         i \notin DOMAIN store \/ store'[i] # store[i]})
                 /\ \A k \in DOMAIN feed : feed'[k] = feed[k]
                 /\ \A k \in DOMAIN feed' \ DOMAIN feed :
                        /\ feed'[k].op =
                              IF feed'[k].id \in DOMAIN store THEN "update" ELSE "insert"
                        /\ feed'[k].ts > oplog
                        /\ \A j \in DOMAIN feed' : j < k => feed'[j].ts < feed'[k].ts ]_vars

\* C7's case: a socket that was connected all along has received one
\* new_message for the document of POST /api/send, then one message_status
\* for its change to delivered, and nothing is left in the queue
C7_Witness ==
    /\ "s1" \in subs /\ feed = <<>> /\ watch
    /\ Len(store) = 1 /\ store[1].msg_id = "local-1" /\ store[1].status = "delivered"
    /\ Len(inbox["s1"]) = 2
    /\ inbox["s1"][1].type = "new_message" /\ inbox["s1"][1].msg_id = "local-1"
    /\ inbox["s1"][1].status = "sent"
    /\ inbox["s1"][2].type = "message_status" /\ inbox["s1"][2].msg_id = "local-1"
    /\ inbox["s1"][2].status = "delivered"
    /\ "s2" \in subs /\ Len(inbox["s2"]) = 1

\* C8: when GET /api/messages/:wa_id has answered, every inbound document it
\* found is read, and the aggregation of GET /api/chats counts no unread
\* document of that wa_id
C8_ReadAfterGet ==
    last.op = "messages" =>
        /\ UnreadCount(store, last.id) = 0
        /\ \A k \in DOMAIN last.arg :
              last.arg[k].direction = "inbound" =>
                  \E i \in DOMAIN store :
                      /\ store[i].msg_id = last.arg[k].msg_id
                      /\ store[i].status = "read"

\* C8's case: the request found inbound documents that were not read, one
\* of them delivered
C8_Witness ==
    /\ last.op = "messages"
    /\ \E k \in DOMAIN last.arg :
          last.arg[k].direction = "inbound" /\ last.arg[k].status = "delivered"
    /\ Cardinality({i \in DOMAIN store : store[i].wa_id = last.id}) >= 2

\* C9: no run ends on an error when two runs upsert the same msg_id, and
\* when both are done every msg_id has one document
C9_RaceIsNoError ==
    /\ \A p \in Runs : ing[p].pc # "aborted"
    /\ (\A p \in Runs : ing[p].pc = "done") =>
          \A p \in Runs : \A k \in DOMAIN BatchItems(ing[p].files) :
              BatchItems(ing[p].files)[k].kind = "msg" =>
                  Cardinality(ByMsgId(store, BatchItems(ing[p].files)[k].m.id)) = 1

\* the message items of the batch, as <<file, position in the file>>, apart
\* from the item the run failed at
Siblings(r) ==
    {<<f, k>> \in UNION {{f} \X DOMAIN FileItems(r.files[f]) : f \in DOMAIN r.files} :
        /\ FileItems(r.files[f])[k].kind = "msg"
        /\ ~(r.pc = "aborted" /\ f = r.fi /\ k = r.wi + 1)}

\* C10: when the run has ended, every message item of the batch, the one it
\* failed at apart, has its document
C10_SiblingsApplied ==
    ing["r1"].pc \in {"done", "aborted"} =>
        \A fk \in Siblings(ing["r1"]) :
            ByMsgId(store, FileItems(ing["r1"].files[fk[1]])[fk[2]].m.id) # {}

\* C11: the document a message item creates, of the nested shape or of the
\* flat one, is outbound when the sender of the item is BUSINESS_NUMBER and
\* inbound otherwise
C11_DirectionBySender ==
    [][ \A p \in Runs :
            (ing[p].pc = "insert" /\ ing'[p].pc = "run" /\ Len(store') = Len(store) + 1)
                => store'[Len(store')].direction =
                      IF Item(ing[p]).m.from = BUSINESS_NUMBER THEN "outbound" ELSE "inbound"
      ]_vars

\* what the operation that answered or logged l at the time t has done to
\* the collection s, leaving s2
WriteEffect(s, s2, l, t) ==
    CASE l.op = "send" /\ l.code = 201 ->
            /\ ByMsgId(s, l.id) = {}
            /\ Len(s2) = Len(s) + 1
            /\ s2 = Append(s, SendDoc(s2[Len(s2)].wa_id, l.arg, l.id, t))
      [] l.op = "send" /\ l.code = 500 -> s2 = s /\ ByMsgId(s, l.id) # {}
      [] l.op = "status" /\ l.code = 200 ->
            \E i \in ByEitherId(s, l.id) : s2 = SetStatus(s, i, l.arg, t)
      [] l.op = "status" /\ l.code = 404 -> s2 = s /\ ByEitherId(s, l.id) = {}
      [] l.op = "messages" -> s2 = MarkRead(s, l.id, t)
      [] l.op = "upsert" /\ l.code = 1 ->
            /\ ByMsgId(s, l.id) = {}
            /\ Len(s2) = Len(s) + 1
            /\ \A i \in DOMAIN s : s2[i] = s[i]
            /\ s2[Len(s2)].msg_id = l.id /\ s2[Len(s2)].status = "received"
      [] l.op = "upsert" /\ l.code = 0 ->
            \E i \in ByMsgId(s, l.id) : s2 = [s EXCEPT ![i].updatedAt = t]
      [] l.op = "patch" -> s2 \in PatchStatus(s, l.id, l.arg, t)
      [] OTHER -> s2 = s

\* C12: when the change stream has reported an error, POST /api/send,
\* POST /api/status, GET /api/messages/:wa_id and the run of the processor can
\* still take their steps; every operation does to the collection what it does
\* with the stream open; and no event is queued or emitted any more
C12_WritesIgnoreFeed ==
    /\ [](~watch =>
            /\ ENABLED Send("111", "hello", "local-1")
            /\ ENABLED UpdateStatus("local-1", "delivered")
            /\ req.pc = "idle" => ENABLED GetMessagesFind("111")
            /\ req.pc = "mark" => ENABLED GetMessagesMark
            /\ ing["r1"].pc = "idle" => ENABLED IngestStart("r1", FeedBatches)
            /\ ing["r1"].pc = "run" =>
                   ENABLED (\/ IngestNextFile("r1") \/ IngestUpsertExisting("r1")
                            \/ IngestUpsertMiss("r1") \/ IngestStatus("r1")
                            \/ IngestDone("r1"))
            /\ ing["r1"].pc = "insert" =>
                   ENABLED (IngestUpsertInsert("r1") \/ IngestUpsertRetry("r1")))
    /\ [][ /\ (last' # last) => WriteEffect(store, store', last', last'.at)
           /\ (last' = last) => store' = store
           /\ oplog' = oplog + Cardinality({i \in DOMAIN store' :
                                   i \notin DOMAIN store \/ store'[i] # store[i]})
           /\ ~watch => (~watch' /\ feed' = <<>>
                             /\ \A c \in Sockets : Len(inbox'[c]) <= Len(inbox[c]))
         ]_vars

\* C12's case: a socket has received the new_message of POST /api/send, then
\* the stream reported an error, and POST /api/status has since set the
\* document to delivered and answered 200, with no event for it
C12_Witness ==
    /\ ~watch /\ feed = <<>>
    /\ last.op = "status" /\ last.code = 200 /\ last.id = "local-1"
    /\ Len(store) = 1 /\ store[1].status = "delivered" /\ oplog = 2
    /\ "s1" \in subs /\ Len(inbox["s1"]) = 1 /\ inbox["s1"][1].type = "new_message"

\* C13: POST /api/send without wa_id or without text, and POST /api/status
\* without id or without status, are answered 400: the request is never
\* handled as a valid one, and the answer comes with no write to the
\* collection, no change event queued and none emitted
C13_RejectsWithoutMutation ==
    /\ [](\A wa \in FeedWaIds, text \in FeedTexts :
            (wa = "" \/ text = "") =>
                ENABLED SendInvalid(wa, text) /\ ~ENABLED Send(wa, text, "local-1"))
    /\ [](\A id \in FeedStatusIds, st \in FeedStatusValues :
            (id = "" \/ st = "") =>
                ENABLED UpdateStatusInvalid(id, st) /\ ~ENABLED UpdateStatus(id, st))
    /\ [][ /\ (last' # last /\ last'.op \in {"send", "status"}
                 /\ (last'.id = "" \/ last'.arg = ""))
              => last'.code = 400
           /\ (last' # last /\ last'.code = 400)
              => /\ store' = store /\ oplog' = oplog
                 /\ feed' = feed /\ inbox' = inbox
           /\ \A i \in DOMAIN store' \ DOMAIN store :
                 store'[i].wa_id # "" /\ store'[i].text # ""
         ]_vars

\* C13's case: POST /api/send without text was answered 400 while the
\* collection holds a document, the stream is open and a socket is connected
C13_Witness ==
    /\ last.op = "send" /\ last.code = 400 /\ last.id = "111" /\ last.arg = ""
    /\ Len(store) = 1 /\ oplog = 1
    /\ watch /\ "s1" \in subs /\ Len(inbox["s1"]) = 1 /\ feed = <<>>

\* the step is a status patch, of a payload or of POST /api/status
PatchStep ==
    /\ last' # last
    /\ last'.op \in {"patch", "status"}
    /\ last'.code # 400

\* C14: a status patch whose id is the msg_id of a document sets the status
\* of that document, whatever other document has the id as its meta_msg_id
C14_PatchResolvesToMessage ==
    [][ PatchStep =>
            \A i \in ByMsgId(store, last'.id) : store'[i].status = last'.arg ]_vars

\* C15: a status patch writes one document at most: a document that has the
\* id as its msg_id or its meta_msg_id gets the status and a new updatedAt,
\* and every other document, the other ones with that id as well, stays as
\* it is
C15_PatchChangesOne ==
    [][ PatchStep =>
            /\ Len(store') = Len(store)
            /\ Cardinality({i \in DOMAIN store : store'[i] # store[i]}) <= 1
            /\ \A i \in DOMAIN store :
                  store'[i] # store[i] =>
                      /\ i \in ByEitherId(store, last'.id)
                      /\ store'[i] = [store[i] EXCEPT !.status = last'.arg,
                                                      !.updatedAt = last'.at]
            /\ ByEitherId(store, last'.id) # {} =>
                  \E i \in ByEitherId(store, last'.id) :
                      /\ store'[i].status = last'.arg
                      /\ store'[i].updatedAt = last'.at
                      /\ store'[i].updatedAt > store[i].updatedAt ]_vars

\* C15's case: POST /api/status for m1 when the message m1 and its reply m2
\* are stored: one of the two is read, the other is as it was
C15_Witness ==
    /\ last.op = "status" /\ last.code = 200 /\ last.id = "m1" /\ last.arg = "read"
    /\ Cardinality(ByEitherId(store, "m1")) = 2
    /\ \E i, j \in ByEitherId(store, "m1") :
          /\ i # j
          /\ store[i].status = "read" /\ store[i].updatedAt = last.at
          /\ store[j].status = "received" /\ store[j].updatedAt < last.at

\* C16: a socket receives message_status for the writes that changed the
\* status of a document, and for no other: an update is queued for a document
\* whose status the write has changed, the event of an update is emitted as
\* message_status, and the event of an insert as new_message
C16_StatusEventOnlyOnChange ==
    [][ /\ (watch /\ store' # store)
              => \A k \in DOMAIN feed' \ DOMAIN feed :
                    feed'[k].op = "update"
                        => store'[feed'[k].id].status # store[feed'[k].id].status
        /\ (watch /\ watch' /\ feed # <<>> /\ feed' = Tail(feed))
              => \A c \in subs :
                    inbox'[c][Len(inbox'[c])].type =
                        IF Head(feed).op = "insert" THEN "new_message" ELSE "message_status"
      ]_vars

\* C17: the updateMany of GET /api/messages/:wa_id sets to read the inbound
\* documents of that wa_id that are not read, and writes no other document:
\* the outbound ones, the ones already read and the ones of other wa_ids stay
\* as they are, and modifiedCount is the number of documents written
C17_MarkReadFrame ==
    [][ (last' # last /\ last'.op = "messages") =>
            /\ Len(store') = Len(store)
            /\ \A i \in DOMAIN store :
                  IF /\ store[i].wa_id = last'.id
                     /\ store[i].direction = "inbound"
                     /\ store[i].status # "read"
                  THEN store'[i] = [store[i] EXCEPT !.status = "read",
                                                   !.updatedAt = last'.at]
                  ELSE store'[i] = store[i]
            /\ MarkedCount(store, last'.id)
                  = Cardinality({i \in DOMAIN store : store'[i] # store[i]}) ]_vars

\* C17's case: GET /api/messages/111 when 111 has an inbound document and a
\* sent one of POST /api/send, and 222 has a sent one: the inbound one is read
\* since this call, the others are as they were
C17_Witness ==
    /\ last.op = "messages" /\ last.id = "111"
    /\ \E i, j, k \in DOMAIN store :
          /\ store[i].wa_id = "111" /\ store[i].direction = "inbound"
          /\ store[i].status = "read" /\ store[i].updatedAt = last.at
          /\ store[j].wa_id = "111" /\ store[j].direction = "outbound"
          /\ store[j].status = "sent" /\ store[j].updatedAt < last.at
          /\ store[k].wa_id = "222" /\ store[k].status = "sent"

\* the values of the field status
Statuses == {"received", "sent", "delivered", "read"}

\* C18: the status of every document is one of received, sent, delivered
\* and read
C18_StatusInEnum == \A i \in DOMAIN store : store[i].status \in Statuses

\* the documents of wa
Of(s, wa) == {i \in DOMAIN s : s[i].wa_id = wa}

\* document i is the latest of its wa_id: it has the greatest timestamp, and
\* among the documents of that timestamp the greatest createdAt
Latest(s, i) ==
    \A j \in Of(s, s[i].wa_id) \ {i} :
        \/ s[i].timestamp > s[j].timestamp
        \/ s[i].timestamp = s[j].timestamp /\ s[i].createdAt > s[j].createdAt

\* C19: GET /api/chats answers one summary for every wa_id of the collection;
\* name, lastMessage and lastTimestamp of a summary are those of the latest
\* document of the wa_id, unreadCount is the number of its inbound documents
\* that are not read, and the summaries come by lastTimestamp, greatest first
C19_ChatsSummaries ==
    last.op = "chats" =>
        LET r == last.arg IN
        /\ Len(r) = Cardinality(ChatIds(store))
        /\ {r[k].wa_id : k \in DOMAIN r} = ChatIds(store)
        /\ \A k \in DOMAIN r :
              /\ \E i \in Of(store, r[k].wa_id) :
                    /\ Latest(store, i)
                    /\ r[k].name = store[i].from
                    /\ r[k].lastMessage = store[i].text
                    /\ r[k].lastTimestamp = store[i].timestamp
              /\ r[k].unreadCount =
                    Cardinality({i \in Of(store, r[k].wa_id) :
                        store[i].direction = "inbound" /\ store[i].status # "read"})
        /\ \A j, k \in DOMAIN r : j < k => r[j].lastTimestamp >= r[k].lastTimestamp

\* C20: GET /api/messages/:wa_id answers the documents as find returned them,
\* before its updateMany: the array is the one read at the find, whatever was
\* written since; every inbound document of the wa_id is read after the
\* updateMany, the ones in the array that were not read with the status they
\* had at the find, and the ones inserted after the find without being in
\* the array
C20_ReturnsPreMarkSnapshot ==
    [][ /\ (req.pc = "idle" /\ req'.pc = "mark") =>
              /\ Len(req'.msgs) = Cardinality(Of(store, req'.wa_id))
              /\ {req'.msgs[k] : k \in DOMAIN req'.msgs}
                    = {store[i] : i \in Of(store, req'.wa_id)}
        /\ (req.pc = "mark" /\ req'.pc = "mark") => req' = req
        /\ (last' # last /\ last'.op = "messages") =>
              /\ req.pc = "mark" /\ last'.id = req.wa_id
              /\ last'.arg = req.msgs
              /\ \A i \in Of(store, last'.id) :
                    store[i].direction = "inbound" => store'[i].status = "read"
              /\ \A i \in UnreadInbound(store, last'.id) :
                    store'[i].updatedAt = last'.at
      ]_vars

\* C20's case: the answer holds an inbound document as received that the call
\* has set to read, and the call has set to read another inbound document,
\* inserted after the find, that the answer does not hold
C20_Witness ==
    /\ last.op = "messages"
    /\ \E k \in DOMAIN last.arg :
          /\ last.arg[k].direction = "inbound" /\ last.arg[k].status = "received"
          /\ \E i \in Of(store, last.id) :
                /\ store[i].msg_id = last.arg[k].msg_id
                /\ store[i].status = "read" /\ store[i].updatedAt = last.at
    /\ \E i \in Of(store, last.id) :
          /\ store[i].direction = "inbound"
          /\ store[i].status = "read" /\ store[i].updatedAt = last.at
          /\ \A k \in DOMAIN last.arg : last.arg[k].msg_id # store[i].msg_id

====
